---- MODULE Spec2Model ----
(***************************************************************************)
(* A model of src/currency_exchange.py: the CurrencyExchange object (base  *)
(* currency, rate table, last-updated timestamp), the files it reads and   *)
(* writes, and its operations.                                             *)
(*                                                                         *)
(* Numbers are fixed-point: the integer n stands for the Python number     *)
(* n / 100 (0.85 is 85, 1180.0 is 118000).  Every Python value the rate    *)
(* table, a JSON document or an argument can hold is a tagged record, so   *)
(* that values of different Python types can be stored side by side.       *)
(***************************************************************************)
EXTENDS Integers, Sequences, FiniteSets, TLC

VARIABLES
    base_currency,      \* self.base_currency
    exchange_rates,     \* self._exchange_rates: code -> value
    last_updated,       \* self._last_updated
    files,              \* the files the program writes: path -> content
    clock,              \* the wall clock datetime.now() reads
    last_call,          \* the last call made: operation, arguments, outcome
    pre,                \* the object's fields as that call found them
    exported,           \* the object's fields as the last export_rates found them
    query               \* the arguments of the question the caller will ask

vars == <<base_currency, exchange_rates, last_updated, files, clock,
          last_call, pre, exported, query>>

----------------------------------------------------------------------------
(* Bounds of the model.                                                    *)

\* The clock stops the model after this many readings of datetime.now().
MaxClock == 3
\* The longest mapping given to update_multiple_rates.
MaxMap == 2
\* The longest list of target currencies given to find_best_exchange.
MaxList == 2

----------------------------------------------------------------------------
(* Python values.                                                          *)

Num(n) == [t |-> "num", v |-> n]
NaN == [t |-> "nan"]
PosInf == [t |-> "inf"]
NegInf == [t |-> "-inf"]
Str(s) == [t |-> "str", v |-> s]
None == [t |-> "none"]
Bool(b) == [t |-> "bool", v |-> b]
List(s) == [t |-> "list", v |-> s]
Dict(f) == [t |-> "dict", v |-> f]

\* isinstance(x, (int, float)): bool is a subclass of int.
IsNumber(x) == x.t \in {"num", "nan", "inf", "-inf", "bool"}

\* float(x) for a number x: True is 1.0, False is 0.0.
ToFloat(x) == IF x.t = "bool" THEN Num(IF x.v THEN 100 ELSE 0) ELSE x

\* x <= 0 for a number x: every comparison with nan is False.
LeZero(x) ==
    LET f == ToFloat(x)
    IN  CASE f.t = "num"  -> f.v <= 0
          [] f.t = "-inf" -> TRUE
          [] OTHER        -> FALSE

\* str.upper() on the strings the model's calls pass.
Upper(s) ==
    CASE s = "usd" -> "USD"
      [] s = "eur" -> "EUR"
      [] s = "gbp" -> "GBP"
      [] s = "xyz" -> "XYZ"
      [] OTHER     -> s

----------------------------------------------------------------------------
(* datetime.                                                               *)

\* A datetime: whole seconds, microseconds, and whether it carries a UTC
\* offset (an aware datetime) or none (a naive one, as datetime.now() gives).
DateTime(sec, us, aware) == [t |-> "datetime", sec |-> sec, us |-> us, aware |-> aware]

\* datetime.now(): the clock counts half seconds, so that readings with and
\* without a fractional part both occur.
Now(c) == DateTime(c \div 2, (c % 2) * 500000, FALSE)

\* A str holding ISO-8601 text keeps its parts apart: the date and time to the
\* second, the fraction when one is written, the offset when one is written.
IsoText(sec, frac, offset) == [t |-> "isostr", sec |-> sec, frac |-> frac, offset |-> offset]

IsStr(x) == x.t \in {"str", "isostr"}

\* isoformat() as it would be with the time cut to whole seconds
\* (timespec="seconds"): the fraction is never written.
isoformat_seconds(d) ==
    IsoText(d.sec, <<>>, IF d.aware THEN <<0>> ELSE <<>>)

\* datetime.isoformat(): the fraction is written only when microsecond is
\* not 0, the offset only for an aware datetime.
isoformat(d) ==
    IsoText(d.sec,
            IF d.us = 0 THEN <<>> ELSE <<d.us>>,
            IF d.aware THEN <<0>> ELSE <<>>)

\* datetime.fromisoformat(x): a TypeError for a value that is no str, a
\* ValueError for a str that is no ISO-8601 text.
fromisoformat(x) ==
    CASE ~IsStr(x)     -> [exc |-> "TypeError", value |-> None]
      [] x.t = "str"   -> [exc |-> "ValueError", value |-> None]
      [] OTHER         ->
            [exc |-> "",
             value |-> DateTime(x.sec,
                                IF x.frac = <<>> THEN 0 ELSE x.frac[1],
                                x.offset # <<>>)]

----------------------------------------------------------------------------
(* The seed tables of __init__.                                            *)

SeedRates ==
    [USD |-> Num(100),  EUR |-> Num(85),   GBP |-> Num(73),   JPY |-> Num(11000),
     CAD |-> Num(125),  AUD |-> Num(135),  CHF |-> Num(92),   CNY |-> Num(645),
     INR |-> Num(7450), BRL |-> Num(520),  MXN |-> Num(2010), KRW |-> Num(118000),
     SGD |-> Num(135),  HKD |-> Num(780),  NOK |-> Num(860),  SEK |-> Num(890),
     DKK |-> Num(630),  PLN |-> Num(390),  CZK |-> Num(2150), HUF |-> Num(29500)]

\* The symbols outside ASCII are written by name.
CurrencySymbols ==
    [USD |-> Str("$"),     EUR |-> Str("euro"),  GBP |-> Str("pound"), JPY |-> Str("yen"),
     CAD |-> Str("C$"),    AUD |-> Str("A$"),    CHF |-> Str("CHF"),   CNY |-> Str("yen"),
     INR |-> Str("rupee"), BRL |-> Str("R$"),    MXN |-> Str("$"),     KRW |-> Str("won"),
     SGD |-> Str("S$"),    HKD |-> Str("HK$"),   NOK |-> Str("kr"),    SEK |-> Str("kr"),
     DKK |-> Str("kr"),    PLN |-> Str("zl"),    CZK |-> Str("Kc"),    HUF |-> Str("Ft")]

CurrencyNames ==
    [USD |-> Str("US Dollar"),         EUR |-> Str("Euro"),
     GBP |-> Str("British Pound Sterling"), JPY |-> Str("Japanese Yen"),
     CAD |-> Str("Canadian Dollar"),   AUD |-> Str("Australian Dollar"),
     CHF |-> Str("Swiss Franc"),       CNY |-> Str("Chinese Yuan"),
     INR |-> Str("Indian Rupee"),      BRL |-> Str("Brazilian Real"),
     MXN |-> Str("Mexican Peso"),      KRW |-> Str("South Korean Won"),
     SGD |-> Str("Singapore Dollar"),  HKD |-> Str("Hong Kong Dollar"),
     NOK |-> Str("Norwegian Krone"),   SEK |-> Str("Swedish Krona"),
     DKK |-> Str("Danish Krone"),      PLN |-> Str("Polish Zloty"),
     CZK |-> Str("Czech Koruna"),      HUF |-> Str("Hungarian Forint")]

----------------------------------------------------------------------------
(* The object, and what a call gives back.                                 *)

\* The fields of a CurrencyExchange that change after construction.  The
\* symbol and name tables never change: they are CurrencySymbols and
\* CurrencyNames throughout.
Object(base, rates, updated) ==
    [base_currency |-> base, exchange_rates |-> rates, last_updated |-> updated]

\* A call's outcome: the value returned, or the exception raised.
Return(v) == [exc |-> "", value |-> v]
Raise(e) == [exc |-> e, value |-> None]

\* What a method leaves behind: the object, the clock, the files, the outcome.
After(o, c, f, out) == [self |-> o, clock |-> c, files |-> f, out |-> out]

\* is_valid_currency(code)
is_valid_currency(o, code) == Upper(code) \in DOMAIN o.exchange_rates

\* update_exchange_rate(code, rate)
update_exchange_rate(o, c, f, code, rate) ==
    LET currency_code == Upper(code)
    IN  IF ~is_valid_currency(o, currency_code)
        THEN After(o, c, f, Raise("CurrencyExchangeError"))
        ELSE IF ~IsNumber(rate) \/ LeZero(rate)
        THEN After(o, c, f, Raise("CurrencyExchangeError"))
        ELSE After([o EXCEPT !.exchange_rates[currency_code] = ToFloat(rate),
                             !.last_updated = Now(c)],
                   c + 1, f, Return(None))

\* update_multiple_rates as it would be if a failing entry were skipped and
\* the entries after it still applied, the first error raised at the end.
RECURSIVE update_multiple_rates_skipping(_, _, _, _)
update_multiple_rates_skipping(o, c, f, items) ==
    IF items = <<>>
    THEN After(o, c, f, Return(None))
    ELSE LET r == update_exchange_rate(o, c, f, items[1][1], items[1][2])
             rest == update_multiple_rates_skipping(r.self, r.clock, r.files, Tail(items))
         IN  IF r.out.exc # ""
             THEN After(rest.self, rest.clock, rest.files, r.out)
             ELSE rest

\* update_multiple_rates(rates): rates.items() is a sequence of <<code, rate>>
\* pairs in the mapping's order.
RECURSIVE update_multiple_rates(_, _, _, _)
update_multiple_rates(o, c, f, items) ==
    IF items = <<>>
    THEN After(o, c, f, Return(None))
    ELSE LET r == update_exchange_rate(o, c, f, items[1][1], items[1][2])
         IN  IF r.out.exc # ""
             THEN r
             ELSE update_multiple_rates(r.self, r.clock, r.files, Tail(items))

----------------------------------------------------------------------------
(* Files and JSON.                                                         *)

\* What a path holds: nothing, text that is no JSON (the log's lines, a
\* damaged document), a JSON document, or a file that cannot be opened.
Absent == [kind |-> "absent"]
Denied == [kind |-> "denied"]
Text(lines) == [kind |-> "text", lines |-> lines]
JsonFile(j) == [kind |-> "json", json |-> j]

LogPath == "/app/log.txt"

\* json.dump: a number is written as its digits (sign, whole part, two
\* places), nan and the infinities by name (allow_nan is on by default),
\* a str as a string, a list as an array, a dict as an object.
RECURSIVE JsonEncode(_)
JsonEncode(x) ==
    CASE x.t = "num"  -> [j |-> "number", neg |-> x.v < 0,
                          whole |-> (IF x.v < 0 THEN -x.v ELSE x.v) \div 100,
                          frac |-> (IF x.v < 0 THEN -x.v ELSE x.v) % 100]
      [] x.t = "nan"  -> [j |-> "NaN"]
      [] x.t = "inf"  -> [j |-> "Infinity"]
      [] x.t = "-inf" -> [j |-> "-Infinity"]
      [] x.t = "none" -> [j |-> "null"]
      [] x.t = "bool" -> [j |-> IF x.v THEN "true" ELSE "false"]
      [] x.t = "list" -> [j |-> "array",
                          items |-> [i \in DOMAIN x.v |-> JsonEncode(x.v[i])]]
      [] x.t = "dict" -> [j |-> "object",
                          members |-> [k \in DOMAIN x.v |-> JsonEncode(x.v[k])]]
      [] OTHER        -> [j |-> "string", s |-> x]

\* json.load of a well-formed document.
RECURSIVE JsonDecode(_)
JsonDecode(j) ==
    CASE j.j = "number"    -> Num((IF j.neg THEN -1 ELSE 1) * (j.whole * 100 + j.frac))
      [] j.j = "NaN"       -> NaN
      [] j.j = "Infinity"  -> PosInf
      [] j.j = "-Infinity" -> NegInf
      [] j.j = "null"      -> None
      [] j.j = "true"      -> Bool(TRUE)
      [] j.j = "false"     -> Bool(FALSE)
      [] j.j = "array"     -> List([i \in DOMAIN j.items |-> JsonDecode(j.items[i])])
      [] j.j = "object"    -> Dict([k \in DOMAIN j.members |-> JsonDecode(j.members[k])])
      [] OTHER             -> j.s

\* key in data: a dict is asked for the key, a list for an equal element, a
\* str for the substring (the model's strings are whole words); any other
\* value is not iterable.
py_contains(data, key) ==
    CASE data.t = "dict" -> Return(key \in DOMAIN data.v)
      [] data.t = "list" -> Return(\E i \in DOMAIN data.v : data.v[i] = Str(key))
      [] data.t = "str"  -> Return(data.v = key)
      [] OTHER           -> Raise("TypeError")

\* data[key], asked only after key in data: a list and a str take integer
\* indices only.
py_getitem(data, key) ==
    IF data.t = "dict" THEN Return(data.v[key]) ELSE Raise("TypeError")

\* d with d[k] = v.
SetItem(d, k, v) == [x \in DOMAIN d \cup {k} |-> IF x = k THEN v ELSE d[x]]

\* dict.update(other) from a sequence: each element must be a pair, and the
\* pairs before a bad element are already stored when the error is raised.
RECURSIVE update_from_seq(_, _)
update_from_seq(d, seq) ==
    IF seq = <<>>
    THEN [exc |-> "", value |-> d]
    ELSE LET e == seq[1]
         IN  CASE e.t \notin {"list", "str"} -> [exc |-> "TypeError", value |-> d]
               [] e.t = "str"                -> [exc |-> "ValueError", value |-> d]
               [] Len(e.v) # 2               -> [exc |-> "ValueError", value |-> d]
               [] e.v[1].t # "str"           -> [exc |-> "TypeError", value |-> d]
               [] OTHER -> update_from_seq(SetItem(d, e.v[1].v, e.v[2]), Tail(seq))

\* dict.update(other) as it would be if the table were replaced by the
\* document's mapping instead of merged with it.
dict_update_replacing(d, other) ==
    CASE other.t = "dict" -> [exc |-> "", value |-> other.v]
      [] other.t = "list" -> update_from_seq(d, other.v)
      [] other.t = "str"  -> [exc |-> IF other.v = "" THEN "" ELSE "ValueError", value |-> d]
      [] OTHER            -> [exc |-> "TypeError", value |-> d]

\* dict.update(other): a mapping is merged key by key, a sequence is read as
\* pairs, an empty str is an empty sequence, anything else is an error.
dict_update(d, other) ==
    CASE other.t = "dict" ->
            [exc |-> "",
             value |-> [k \in DOMAIN d \cup DOMAIN other.v |->
                           IF k \in DOMAIN other.v THEN other.v[k] ELSE d[k]]]
      [] other.t = "list" -> update_from_seq(d, other.v)
      [] other.t = "str"  -> [exc |-> IF other.v = "" THEN "" ELSE "ValueError", value |-> d]
      [] OTHER            -> [exc |-> "TypeError", value |-> d]

Document(d) == JsonFile(JsonEncode(d))

\* The documents on disk before the program starts; the program writes to
\* none of these paths.
Disk0 ==
    [p \in {"missing.json"} |-> Absent]
    @@ ("bad.json"    :> Text(<<"{not json">>))
    @@ ("empty.json"  :> Document(Dict(<<>>)))
    @@ ("list.json"   :> Document(List(<<Str("exchange_rates")>>)))
    @@ ("scalar.json" :> Document(Dict([exchange_rates |-> Num(500)])))
    @@ ("merge.json"  :> Document(Dict([exchange_rates |->
                             Dict([EUR |-> Num(90), XYZ |-> Num(200)])])))
    @@ ("full.json"   :> Document(Dict([exchange_rates |-> Dict([GBP |-> Num(80)]),
                                        base_currency  |-> Str("EUR"),
                                        last_updated   |-> IsoText(7, <<250000>>, <<0>>)])))
    @@ ("junk.json"   :> Document(Dict([exchange_rates |->
                             Dict([EUR |-> Num(0), GBP |-> Str("n/a")])])))
    @@ ("badts.json"  :> Document(Dict([exchange_rates |-> Dict([EUR |-> Num(50)]),
                                        last_updated   |-> Str("yesterday")])))

\* open(path): the variable part of the file system holds the paths the
\* program writes to; every other path holds what Disk0 says.
read_file(f, path) == IF path \in DOMAIN f THEN f[path] ELSE Disk0[path]

----------------------------------------------------------------------------
(* Persistence.                                                            *)

\* export_rates(file_path): the five members, last_updated as ISO-8601 text.
\* A path that cannot be opened raises PermissionError before anything is
\* written.
export_rates(o, c, f, file_path) ==
    LET data == Dict([base_currency    |-> o.base_currency,
                      exchange_rates   |-> Dict(o.exchange_rates),
                      last_updated     |-> isoformat(o.last_updated),
                      currency_symbols |-> Dict(CurrencySymbols),
                      currency_names   |-> Dict(CurrencyNames)])
    IN  IF f[file_path].kind = "denied"
        THEN After(o, c, f, Raise("PermissionError"))
        ELSE After(o, c, [f EXCEPT ![file_path] = JsonFile(JsonEncode(data))],
                   Return(None))

\* The except clause of import_rates: FileNotFoundError, JSONDecodeError and
\* KeyError become CurrencyExchangeError, every other exception passes.
ImportError(e) ==
    IF e \in {"FileNotFoundError", "JSONDecodeError", "KeyError"}
    THEN Raise("CurrencyExchangeError")
    ELSE Raise(e)

\* Lines 480-481: if 'exchange_rates' in data: update the table.
import_exchange_rates(o, data) ==
    LET has == py_contains(data, "exchange_rates")
    IN  IF has.exc # "" THEN [exc |-> has.exc, self |-> o]
        ELSE IF ~has.value THEN [exc |-> "", self |-> o]
        ELSE LET item == py_getitem(data, "exchange_rates")
             IN  IF item.exc # "" THEN [exc |-> item.exc, self |-> o]
                 ELSE LET u == dict_update(o.exchange_rates, item.value)
                      IN  [exc |-> u.exc,
                           self |-> [o EXCEPT !.exchange_rates = u.value]]

\* Lines 482-483: if 'base_currency' in data: take it as it is.
import_base_currency(o, data) ==
    LET has == py_contains(data, "base_currency")
    IN  IF has.exc # "" THEN [exc |-> has.exc, self |-> o]
        ELSE IF ~has.value THEN [exc |-> "", self |-> o]
        ELSE LET item == py_getitem(data, "base_currency")
             IN  IF item.exc # "" THEN [exc |-> item.exc, self |-> o]
                 ELSE [exc |-> "", self |-> [o EXCEPT !.base_currency = item.value]]

\* Lines 484-487: last_updated from the document, or else the time now.
import_last_updated(o, c, data) ==
    LET has == py_contains(data, "last_updated")
    IN  IF has.exc # "" THEN [exc |-> has.exc, self |-> o, clock |-> c]
        ELSE IF ~has.value
        THEN [exc |-> "", self |-> [o EXCEPT !.last_updated = Now(c)], clock |-> c + 1]
        ELSE LET item == py_getitem(data, "last_updated")
             IN  IF item.exc # "" THEN [exc |-> item.exc, self |-> o, clock |-> c]
                 ELSE LET d == fromisoformat(item.value)
                      IN  IF d.exc # "" THEN [exc |-> d.exc, self |-> o, clock |-> c]
                          ELSE [exc |-> "",
                                self |-> [o EXCEPT !.last_updated = d.value],
                                clock |-> c]

\* import_rates(file_path): the three steps in order; a step that raises ends
\* the call, and what the steps before it stored stays stored.
import_rates(o, c, f, file_path) ==
    LET content == read_file(f, file_path)
    IN  CASE content.kind = "absent" -> After(o, c, f, ImportError("FileNotFoundError"))
          [] content.kind = "denied" -> After(o, c, f, ImportError("PermissionError"))
          [] content.kind = "text"   -> After(o, c, f, ImportError("JSONDecodeError"))
          [] OTHER ->
                LET data == JsonDecode(content.json)
                    s1 == import_exchange_rates(o, data)
                    s2 == import_base_currency(s1.self, data)
                    s3 == import_last_updated(s2.self, c, data)
                IN  IF s1.exc # "" THEN After(s1.self, c, f, ImportError(s1.exc))
                    ELSE IF s2.exc # "" THEN After(s2.self, c, f, ImportError(s2.exc))
                    ELSE IF s3.exc # "" THEN After(s3.self, c, f, ImportError(s3.exc))
                    ELSE After(s3.self, s3.clock, f, Return(None))

----------------------------------------------------------------------------
(* Construction.                                                           *)

\* open(path, "a") and write: the line is added to the file, which is
\* created when absent; every error is swallowed by the caller.
append_line(f, path, line) ==
    CASE f[path].kind = "denied" -> f
      [] f[path].kind = "absent" -> [f EXCEPT ![path] = Text(<<line>>)]
      [] f[path].kind = "text"   -> [f EXCEPT ![path] = Text(Append(f[path].lines, line))]
      [] OTHER                   -> [f EXCEPT ![path] = Text(<<line>>)]

\* append_init_log(path): one JSON line with the event and the host's
\* fingerprint (collect_system_info).
append_init_log(f, path) == append_line(f, path, "library_initiated system info")

\* __init__: the two writes to the log, then the seed tables and the time of
\* construction.
init(c, f) ==
    LET f1 == append_line(f, LogPath, "library initiated")
        f2 == append_init_log(f1, LogPath)
    IN  After(Object(Str("USD"), SeedRates, Now(c)), c + 1, f2, Return(None))

----------------------------------------------------------------------------
(* Conversion.  A float that is the quotient of two table numbers is kept  *)
(* as the fraction p/q in lowest terms; round(x, 2) brings it back to      *)
(* hundredths, rounding the exact product half to even.                    *)

RECURSIVE GCD(_, _)
GCD(a, b) == IF b = 0 THEN a ELSE GCD(b, a % b)

Abs(n) == IF n < 0 THEN -n ELSE n

Ratio(p, q) ==
    LET g == GCD(Abs(p), Abs(q))
        s == IF q < 0 THEN -1 ELSE 1
    IN  [t |-> "ratio", p |-> (s * p) \div g, q |-> (s * q) \div g]

\* The integer nearest to n / d (d > 0), a tie going to the even one.
RoundHalfEven(n, d) ==
    LET q == n \div d
        r == n - q * d
    IN  IF 2 * r < d THEN q
        ELSE IF 2 * r > d THEN q + 1
        ELSE IF q % 2 = 0 THEN q ELSE q + 1

Sign(x) ==
    CASE x.t = "num"   -> IF x.v > 0 THEN 1 ELSE IF x.v < 0 THEN -1 ELSE 0
      [] x.t = "ratio" -> IF x.p > 0 THEN 1 ELSE IF x.p < 0 THEN -1 ELSE 0
      [] x.t = "inf"   -> 1
      [] x.t = "-inf"  -> -1
      [] OTHER         -> 0

\* a / b: a TypeError unless both are numbers, a ZeroDivisionError for a
\* zero divisor, and the float rules for nan and the infinities.
py_truediv(a0, b0) ==
    IF ~IsNumber(a0) \/ ~IsNumber(b0) THEN Raise("TypeError")
    ELSE LET a == ToFloat(a0)
             b == ToFloat(b0)
         IN  CASE b.t = "num" /\ b.v = 0         -> Raise("ZeroDivisionError")
               [] a.t = "nan" \/ b.t = "nan"     -> Return(NaN)
               [] a.t # "num" /\ b.t # "num"     -> Return(NaN)
               [] b.t # "num"                    -> Return(Ratio(0, 1))
               [] a.t # "num"                    ->
                    Return(IF Sign(a) * Sign(b) > 0 THEN PosInf ELSE NegInf)
               [] OTHER                          -> Return(Ratio(a.v, b.v))

\* round(amount * rate, 2) for a number amount and a rate py_truediv gave.
round_product(amount0, rate) ==
    LET amount == ToFloat(amount0)
    IN  CASE amount.t = "nan" \/ rate.t = "nan" -> NaN
          [] amount.t # "num" \/ rate.t # "ratio" ->
                IF Sign(amount) * Sign(rate) = 0 THEN NaN
                ELSE IF Sign(amount) * Sign(rate) > 0 THEN PosInf ELSE NegInf
          [] OTHER -> Num(RoundHalfEven(amount.v * rate.p, rate.q))

\* x < 0 and x > y for numbers: every comparison with nan is False.
LtZero(x) == Sign(ToFloat(x)) < 0 /\ x.t # "nan"

py_gt(x, y) ==
    CASE x.t = "nan" \/ y.t = "nan" -> FALSE
      [] x.t = "inf"                -> y.t # "inf"
      [] x.t = "-inf"               -> FALSE
      [] y.t = "inf"                -> FALSE
      [] y.t = "-inf"               -> TRUE
      [] OTHER                      -> x.v > y.v

\* get_currency_symbol(currency_code)
get_currency_symbol(o, code) ==
    LET currency_code == Upper(code)
    IN  IF currency_code \notin DOMAIN CurrencySymbols
        THEN Raise("CurrencyExchangeError")
        ELSE Return(CurrencySymbols[currency_code])

\* get_currency_name(currency_code)
get_currency_name(o, code) ==
    LET currency_code == Upper(code)
    IN  IF currency_code \notin DOMAIN CurrencyNames
        THEN Raise("CurrencyExchangeError")
        ELSE Return(CurrencyNames[currency_code])

\* get_exchange_rate(from_currency, to_currency)
get_exchange_rate(o, from, to) ==
    LET from_currency == Upper(from)
        to_currency == Upper(to)
    IN  IF ~is_valid_currency(o, from_currency) THEN Raise("CurrencyExchangeError")
        ELSE IF ~is_valid_currency(o, to_currency) THEN Raise("CurrencyExchangeError")
        ELSE IF from_currency = to_currency THEN Return(Ratio(1, 1))
        ELSE py_truediv(o.exchange_rates[to_currency], o.exchange_rates[from_currency])

\* convert(amount, from_currency, to_currency)
convert(o, amount, from, to) ==
    IF ~IsNumber(amount) \/ LtZero(amount)
    THEN Raise("CurrencyExchangeError")
    ELSE LET exchange_rate == get_exchange_rate(o, from, to)
         IN  IF exchange_rate.exc # "" THEN exchange_rate
             ELSE Return(round_product(amount, exchange_rate.value))

\* results[key] = value on a dict kept as the sequence of its items: a key
\* already there keeps its place.
dict_set(items, key, value) ==
    IF \E i \in DOMAIN items : items[i][1] = key
    THEN [i \in DOMAIN items |-> IF items[i][1] = key THEN <<key, value>> ELSE items[i]]
    ELSE Append(items, <<key, value>>)

\* convert_multiple(amount, from_currency, to_currencies): the loop, with
\* results so far; the first convert that raises ends it.
RECURSIVE convert_loop(_, _, _, _, _)
convert_loop(o, amount, from, to_currencies, results) ==
    IF to_currencies = <<>>
    THEN Return(results)
    ELSE LET r == convert(o, amount, from, to_currencies[1])
         IN  IF r.exc # "" THEN r
             ELSE convert_loop(o, amount, from, Tail(to_currencies),
                               dict_set(results, Upper(to_currencies[1]), r.value))

convert_multiple(o, amount, from, to_currencies) ==
    convert_loop(o, amount, from, to_currencies, <<>>)

\* format_currency(amount, currency_code, include_symbol, decimal_places):
\* the text is kept as its parts, the number rounded to the places asked for
\* (0, 1 or 2).
format_currency(o, amount, code, include_symbol, decimal_places) ==
    LET currency_code == Upper(code)
        unit == IF decimal_places = 0 THEN 100 ELSE IF decimal_places = 1 THEN 10 ELSE 1
        formatted_amount ==
            IF ToFloat(amount).t = "num"
            THEN Num(RoundHalfEven(ToFloat(amount).v, unit) * unit)
            ELSE amount
        symbol == get_currency_symbol(o, currency_code)
    IN  IF ~is_valid_currency(o, currency_code) THEN Raise("CurrencyExchangeError")
        ELSE IF include_symbol
        THEN IF symbol.exc # "" THEN symbol
             ELSE Return([t |-> "text", symbol |-> symbol.value.v,
                          number |-> formatted_amount, places |-> decimal_places,
                          code |-> ""])
        ELSE Return([t |-> "text", symbol |-> "",
                     number |-> formatted_amount, places |-> decimal_places,
                     code |-> currency_code])

\* max(conversions.keys(), key=...): the first item is taken, and a later one
\* replaces it only when its value is greater.
RECURSIVE max_loop(_, _)
max_loop(items, best) ==
    IF items = <<>> THEN best
    ELSE max_loop(Tail(items), IF py_gt(items[1][2], best[2]) THEN items[1] ELSE best)

py_max(items) ==
    IF items = <<>> THEN Raise("ValueError")
    ELSE Return(max_loop(Tail(items), items[1]))

\* find_best_exchange(amount, from_currency, to_currencies)
find_best_exchange(o, amount, from, to_currencies) ==
    LET conversions == convert_multiple(o, amount, from, to_currencies)
        best == py_max(conversions.value)
        best_currency == best.value[1]
        best_amount == best.value[2]
        best_rate == get_exchange_rate(o, from, best_currency)
        formatted == format_currency(o, best_amount, best_currency, TRUE, 2)
    IN  IF conversions.exc # "" THEN conversions
        ELSE IF best.exc # "" THEN best
        ELSE IF best_rate.exc # "" THEN best_rate
        ELSE IF formatted.exc # "" THEN formatted
        ELSE Return([currency |-> best_currency, amount |-> best_amount,
                     formatted |-> formatted.value, rate |-> best_rate.value])

\* compare_currencies(amount, base_currency, currencies): the loop over the
\* conversions, with results so far.  An entry's formatted text is built
\* before its rate is looked up.
RECURSIVE compare_loop(_, _, _, _)
compare_loop(o, base, conversions, results) ==
    IF conversions = <<>>
    THEN Return(results)
    ELSE LET currency == conversions[1][1]
             converted_amount == conversions[1][2]
             formatted == format_currency(o, converted_amount, currency, TRUE, 2)
             rate == get_exchange_rate(o, base, currency)
         IN  IF formatted.exc # "" THEN formatted
             ELSE IF rate.exc # "" THEN rate
             ELSE compare_loop(o, base, Tail(conversions),
                               dict_set(results, currency,
                                        [amount |-> converted_amount,
                                         formatted |-> formatted.value,
                                         rate |-> rate.value]))

compare_currencies(o, amount, base, currencies) ==
    LET conversions == convert_multiple(o, amount, base, currencies)
    IN  IF conversions.exc # "" THEN conversions
        ELSE compare_loop(o, base, conversions.value, <<>>)

----------------------------------------------------------------------------
(* The files the program finds, and the arguments its callers pass.        *)

ExportPaths == {"out.json"}
ImportPaths == DOMAIN Disk0 \cup ExportPaths

UpdateCodes == {"usd", "XYZ"}
UpdateRates == {Num(90), Num(0), NaN, Str("0.9")}

MapItems ==
    {<<"eur", Num(80)>>, <<"GBP", Num(80)>>, <<"GBP", Num(0)>>, <<"XYZ", Num(80)>>}
\* The mappings of at most MaxMap entries: a dict holds each key once.
Mappings ==
    UNION {{m \in [1..n -> MapItems] :
               \A i, j \in 1..n : i # j => m[i][1] # m[j][1]} : n \in 0..MaxMap}

FromCodes == {"USD", "eur"}
ToCodes == {"AUD", "SGD", "eur", "EUR"}
\* The lists of at most MaxList target currencies.
ToLists == UNION {[1..n -> ToCodes] : n \in 0..MaxList}
\* The questions for find_best_exchange: an amount of 100.00 to the lists,
\* and one negative amount.
Queries ==
    [amount : {Num(10000)}, from : FromCodes, to : ToLists]
    \cup {[amount |-> Num(-100), from |-> "USD", to |-> <<"EUR">>]}

\* The questions of a caller that looks currencies up: a code, and a list of
\* codes to set it against.
LookupCodes == {"USD", "EUR", "xyz"}
LookupLists == {<<"eur">>, <<"XYZ">>, <<"USD", "xyz">>}
Lookups == [amount : {Num(10000)}, from : LookupCodes, to : LookupLists]

----------------------------------------------------------------------------
(* The state machine.                                                      *)

Self == Object(base_currency, exchange_rates, last_updated)

NoCall == [op |-> "import currency_exchange", args |-> <<>>, out |-> Return(None)]

\* The state a call leaves: the object, clock and files it gives back, and
\* the record of the call.
Commit(r, op, args) ==
    /\ r.clock <= MaxClock
    /\ base_currency' = r.self.base_currency
    /\ exchange_rates' = r.self.exchange_rates
    /\ last_updated' = r.self.last_updated
    /\ clock' = r.clock
    /\ files' = r.files
    /\ last_call' = [op |-> op, args |-> args, out |-> r.out]
    /\ pre' = Self
    /\ UNCHANGED query

\* Importing the module constructs _default_exchange, at time 0 and with no
\* file written yet.
Constructed ==
    LET r == init(0, [p \in ExportPaths \cup {LogPath} |-> Absent])
    IN  /\ base_currency = r.self.base_currency
        /\ exchange_rates = r.self.exchange_rates
        /\ last_updated = r.self.last_updated
        /\ clock = r.clock
        /\ files = r.files
        /\ last_call = NoCall
        /\ pre = r.self
        /\ exported = [p \in ExportPaths |-> <<>>]

\* A caller with no question to ask.
Init ==
    /\ Constructed
    /\ query = [amount |-> Num(0), from |-> "", to |-> <<>>]

\* A caller with a question for find_best_exchange.
InitQuery ==
    /\ Constructed
    /\ query \in Queries

\* CurrencyExchange(): the caller goes on with a new object.
Construct ==
    LET r == init(clock, files)
    IN  /\ Commit(r, "__init__", <<>>)
        /\ UNCHANGED exported

UpdateExchangeRate ==
    \E code \in UpdateCodes, rate \in UpdateRates :
        LET r == update_exchange_rate(Self, clock, files, code, rate)
        IN  /\ Commit(r, "update_exchange_rate", <<code, rate>>)
            /\ UNCHANGED exported

UpdateMultipleRates ==
    \E m \in Mappings :
        LET r == update_multiple_rates(Self, clock, files, m)
        IN  /\ Commit(r, "update_multiple_rates", <<m>>)
            /\ UNCHANGED exported

ExportRates ==
    \E path \in ExportPaths :
        LET r == export_rates(Self, clock, files, path)
        IN  /\ Commit(r, "export_rates", <<path>>)
            /\ exported' = IF r.out.exc = ""
                           THEN [exported EXCEPT ![path] = <<Self>>]
                           ELSE exported

ImportRates ==
    \E path \in ImportPaths :
        LET r == import_rates(Self, clock, files, path)
        IN  /\ Commit(r, "import_rates", <<path>>)
            /\ UNCHANGED exported

FindBestExchange ==
    LET out == find_best_exchange(Self, query.amount, query.from, query.to)
    IN  /\ Commit(After(Self, clock, files, out),
                  "find_best_exchange", <<query.amount, query.from, query.to>>)
        /\ UNCHANGED exported

GetExchangeRate ==
    LET out == get_exchange_rate(Self, query.from, query.to[1])
    IN  /\ query.to # <<>>
        /\ Commit(After(Self, clock, files, out),
                  "get_exchange_rate", <<query.from, query.to[1]>>)
        /\ UNCHANGED exported

GetCurrencySymbol ==
    LET out == get_currency_symbol(Self, query.from)
    IN  /\ Commit(After(Self, clock, files, out), "get_currency_symbol", <<query.from>>)
        /\ UNCHANGED exported

GetCurrencyName ==
    LET out == get_currency_name(Self, query.from)
    IN  /\ Commit(After(Self, clock, files, out), "get_currency_name", <<query.from>>)
        /\ UNCHANGED exported

FormatCurrency ==
    \E include_symbol \in BOOLEAN :
        LET out == format_currency(Self, query.amount, query.from, include_symbol, 2)
        IN  /\ Commit(After(Self, clock, files, out),
                      "format_currency", <<query.amount, query.from, include_symbol>>)
            /\ UNCHANGED exported

CompareCurrencies ==
    LET out == compare_currencies(Self, query.amount, query.from, query.to)
    IN  /\ Commit(After(Self, clock, files, out),
                  "compare_currencies", <<query.amount, query.from, query.to>>)
        /\ UNCHANGED exported

\* A caller that maintains the rate table.
Next ==
    \/ Construct
    \/ UpdateExchangeRate
    \/ UpdateMultipleRates
    \/ ImportRates

Spec == Init /\ [][Next]_vars

\* A caller that saves the table and loads it again.
NextPersist ==
    \/ Construct
    \/ UpdateExchangeRate
    \/ ExportRates
    \/ ImportRates

SpecPersist == Init /\ [][NextPersist]_vars

\* A caller that changes rates and asks for conversions.
NextQuery ==
    \/ UpdateExchangeRate
    \/ ImportRates
    \/ FindBestExchange

SpecQuery == InitQuery /\ [][NextQuery]_vars

\* A caller with a question about currencies.
InitLookup ==
    /\ Constructed
    /\ query \in Lookups

\* A caller that loads rate files and looks currencies up.
NextLookup ==
    \/ ImportRates
    \/ GetExchangeRate
    \/ GetCurrencySymbol
    \/ GetCurrencyName
    \/ FormatCurrency
    \/ CompareCurrencies
    \/ FindBestExchange

SpecLookup == InitLookup /\ [][NextLookup]_vars

----------------------------------------------------------------------------
(* The claims.  Each is a predicate on the state a call leaves: last_call  *)
(* names the call, pre holds the object as the call found it.              *)

Called(op) == last_call.op = op
Succeeded == last_call.out.exc = ""
Failed(e) == last_call.out.exc = e

\* A positive number: an int, a float or a bool above zero; nan is none.
PositiveNumber(x) == IsNumber(x) /\ Sign(ToFloat(x)) > 0

\* C1: the rate stored for the current base currency is exactly 1.0.
C1_BaseRateIsOne ==
    /\ base_currency.t = "str"
    /\ base_currency.v \in DOMAIN exchange_rates
    /\ exchange_rates[base_currency.v] = Num(100)

\* C2: every value stored in the rate table is a strictly positive number.
C2_RatesPositive ==
    \A code \in DOMAIN exchange_rates : PositiveNumber(exchange_rates[code])

\* C3: no file is written other than the destination given to export_rates:
\* every other path the program can write to holds nothing.
C3_NoFileButExports ==
    \A path \in DOMAIN files \ ExportPaths : files[path] = Absent

\* C4: update_exchange_rate(code, rate) changes the state only for a known
\* code and a positive number: it then stores exactly that rate under the
\* upper-cased code, keeps every other rate, the key set and the base
\* currency, and sets the timestamp to the time of the call; otherwise it
\* raises CurrencyExchangeError and leaves the object as it was.
C4_UpdateExchangeRate ==
    Called("update_exchange_rate") =>
        LET code == Upper(last_call.args[1])
            rate == last_call.args[2]
        IN  IF code \in DOMAIN pre.exchange_rates /\ PositiveNumber(rate)
            THEN /\ Succeeded
                 /\ DOMAIN exchange_rates = DOMAIN pre.exchange_rates
                 /\ \A k \in DOMAIN exchange_rates :
                        exchange_rates[k] =
                            IF k = code THEN ToFloat(rate) ELSE pre.exchange_rates[k]
                 /\ base_currency = pre.base_currency
                 /\ last_updated = Now(clock - 1)
            ELSE /\ Failed("CurrencyExchangeError")
                 /\ Self = pre

\* The entries of a mapping given to update_multiple_rates, and the first of
\* them that update_exchange_rate refuses (one past the end when none is).
EntryFails(item) ==
    \/ Upper(item[1]) \notin DOMAIN pre.exchange_rates
    \/ ~IsNumber(item[2])
    \/ LeZero(item[2])

FirstFailure(items) ==
    IF \E i \in DOMAIN items : EntryFails(items[i])
    THEN CHOOSE i \in DOMAIN items :
            EntryFails(items[i]) /\ \A j \in 1..(i - 1) : ~EntryFails(items[j])
    ELSE Len(items) + 1

\* C5: update_multiple_rates applies the entries in the mapping's order up to
\* the first that fails: the call fails exactly when an entry fails, every
\* entry before that one is stored (the last write to a code wins, the
\* timestamp is the time of the last entry stored), no entry from that one
\* on is stored, and nothing else changes.
C5_UpdateMultipleRates ==
    Called("update_multiple_rates") =>
        LET items == last_call.args[1]
            k == FirstFailure(items)
            Writes(code) == {i \in 1..(k - 1) : Upper(items[i][1]) = code}
            Last(code) == CHOOSE i \in Writes(code) : \A j \in Writes(code) : j <= i
        IN  /\ IF k <= Len(items) THEN Failed("CurrencyExchangeError") ELSE Succeeded
            /\ DOMAIN exchange_rates = DOMAIN pre.exchange_rates
            /\ \A code \in DOMAIN exchange_rates :
                   exchange_rates[code] =
                       IF Writes(code) # {}
                       THEN ToFloat(items[Last(code)][2])
                       ELSE pre.exchange_rates[code]
            /\ base_currency = pre.base_currency
            /\ last_updated = IF k > 1 THEN Now(clock - 1) ELSE pre.last_updated

\* C5's case: a mapping of two entries whose first is stored and whose second
\* fails.
C5_Witness ==
    /\ Called("update_multiple_rates")
    /\ Len(last_call.args[1]) = 2
    /\ FirstFailure(last_call.args[1]) = 2
    /\ Failed("CurrencyExchangeError")
    /\ exchange_rates # pre.exchange_rates

\* The document import_rates read, as json.load gives it.
ImportedData == JsonDecode(read_file(files, last_call.args[1]).json)

HasRatesMapping ==
    /\ read_file(files, last_call.args[1]).kind = "json"
    /\ ImportedData.t = "dict"
    /\ "exchange_rates" \in DOMAIN ImportedData.v
    /\ ImportedData.v["exchange_rates"].t = "dict"

\* C6: import_rates merges: no import removes a currency, and after a
\* successful import of a document with an exchange_rates mapping every
\* currency the document mentions has the document's rate, every other
\* currency of the prior table keeps its prior rate, and no other key appears.
C6_ImportMerges ==
    Called("import_rates") =>
        /\ DOMAIN pre.exchange_rates \subseteq DOMAIN exchange_rates
        /\ (Succeeded /\ HasRatesMapping) =>
               LET doc == ImportedData.v["exchange_rates"].v
               IN  /\ DOMAIN exchange_rates = DOMAIN pre.exchange_rates \cup DOMAIN doc
                   /\ \A code \in DOMAIN exchange_rates :
                          exchange_rates[code] =
                              IF code \in DOMAIN doc
                              THEN doc[code]
                              ELSE pre.exchange_rates[code]

\* C6's case: a successful import whose document adds a currency, overwrites
\* one and leaves others unmentioned.
C6_Witness ==
    /\ Called("import_rates")
    /\ Succeeded
    /\ HasRatesMapping
    /\ \E code \in DOMAIN ImportedData.v["exchange_rates"].v :
            code \notin DOMAIN pre.exchange_rates
    /\ \E code \in DOMAIN ImportedData.v["exchange_rates"].v :
            /\ code \in DOMAIN pre.exchange_rates
            /\ pre.exchange_rates[code] # exchange_rates[code]
    /\ \E code \in DOMAIN pre.exchange_rates :
            code \notin DOMAIN ImportedData.v["exchange_rates"].v

\* A freshly constructed object: the seed table and the seed base currency.
Fresh(o) == o.base_currency = Str("USD") /\ o.exchange_rates = SeedRates

UnusableSource ==
    LET content == read_file(files, last_call.args[1])
    IN  \/ content.kind # "json"
        \/ ~HasRatesMapping
        \/ /\ "last_updated" \in DOMAIN ImportedData.v
           /\ fromisoformat(ImportedData.v["last_updated"]).exc # ""

\* C8: import_rates raises CurrencyExchangeError for every unusable source,
\* and raises no other kind of exception.
C8_ImportErrors ==
    Called("import_rates") =>
        /\ UnusableSource => Failed("CurrencyExchangeError")
        /\ Succeeded \/ Failed("CurrencyExchangeError")

\* C9: find_best_exchange with an empty list of target currencies raises
\* CurrencyExchangeError.
C9_EmptyTargetList ==
    (Called("find_best_exchange") /\ last_call.args[3] = <<>>) =>
        Failed("CurrencyExchangeError")

\* A supported code: in the rate table, with a symbol and a name.
Supported(o, code) ==
    Upper(code) \in DOMAIN o.exchange_rates \cap DOMAIN CurrencySymbols \cap DOMAIN CurrencyNames

\* C10: for a valid amount, a supported source and a non-empty list of
\* supported targets, find_best_exchange returns the target whose converted
\* amount no other target's exceeds, the first such in the list; its amount is
\* convert's and its rate get_exchange_rate's.
C10_FindBest ==
    LET amount == last_call.args[1]
        from == last_call.args[2]
        to == last_call.args[3]
    IN  (/\ Called("find_best_exchange")
         /\ to # <<>>
         /\ PositiveNumber(amount) \/ amount = Num(0)
         /\ Supported(pre, from)
         /\ \A i \in DOMAIN to : Supported(pre, to[i])) =>
            /\ Succeeded
            /\ \E i \in DOMAIN to :
                  LET Amount(j) == convert(pre, amount, from, to[j]).value
                  IN  /\ \A j \in DOMAIN to : ~py_gt(Amount(j), Amount(i))
                      /\ \A j \in 1..(i - 1) : py_gt(Amount(i), Amount(j))
                      /\ last_call.out.value.currency = Upper(to[i])
                      /\ last_call.out.value.amount = Amount(i)
                      /\ last_call.out.value.rate =
                             get_exchange_rate(pre, from, to[i]).value

\* The quotient q is the number rate_b / rate_a.
IsQuotient(q, rate_b, rate_a) ==
    /\ IsNumber(rate_a) /\ ToFloat(rate_a).t = "num"
    /\ IsNumber(rate_b) /\ ToFloat(rate_b).t = "num"
    /\ q.t = "ratio"
    /\ q.p * ToFloat(rate_a).v = q.q * ToFloat(rate_b).v

\* The product of the results x and y is 1.
ProductIsOne(x, y) ==
    /\ x.exc = "" /\ y.exc = ""
    /\ x.value.t = "ratio" /\ y.value.t = "ratio"
    /\ x.value.p * y.value.p = x.value.q * y.value.q

\* C11: for supported codes a and b, get_exchange_rate(a, b) returns
\* rate(b) / rate(a), exactly 1.0 when a and b are one code after
\* upper-casing, and multiplied by get_exchange_rate(b, a) it gives 1.
C11_RateSymmetry ==
    LET a == last_call.args[1]
        b == last_call.args[2]
    IN  (/\ Called("get_exchange_rate")
         /\ Supported(pre, a)
         /\ Supported(pre, b)) =>
            /\ Succeeded
            /\ IF Upper(a) = Upper(b)
               THEN last_call.out.value = Ratio(1, 1)
               ELSE IsQuotient(last_call.out.value,
                               pre.exchange_rates[Upper(b)], pre.exchange_rates[Upper(a)])
            /\ ProductIsOne(last_call.out, get_exchange_rate(pre, b, a))

\* A code the rate table holds with no symbol or no name for it.
Unlisted(o, code) ==
    /\ Upper(code) \in DOMAIN o.exchange_rates
    /\ Upper(code) \notin DOMAIN CurrencySymbols \cap DOMAIN CurrencyNames

\* The codes a lookup is given.
LookupArgs ==
    CASE Called("format_currency") -> {last_call.args[2]}
      [] Called("get_currency_symbol") \/ Called("get_currency_name") -> {last_call.args[1]}
      [] Called("compare_currencies") \/ Called("find_best_exchange") ->
            {last_call.args[2]} \cup {last_call.args[3][i] : i \in DOMAIN last_call.args[3]}
      [] OTHER -> {}

\* C12: the import_rates call that adds a code with no symbol or name
\* succeeds, and a later lookup given such a code (format_currency,
\* get_currency_symbol, get_currency_name, compare_currencies,
\* find_best_exchange) returns or raises CurrencyExchangeError, nothing else.
C12_UnlistedCodeLookups ==
    /\ (/\ Called("import_rates")
        /\ \E code \in DOMAIN exchange_rates :
              Unlisted(Self, code) /\ code \notin DOMAIN pre.exchange_rates) => Succeeded
    /\ (\E code \in LookupArgs : Unlisted(pre, code)) =>
            Succeeded \/ Failed("CurrencyExchangeError")

\* C13: an import_rates call that raises leaves the rate table, the base
\* currency and the last-updated timestamp as the call found them.
C13_FailedImportChangesNothing ==
    (Called("import_rates") /\ ~Succeeded) =>
        /\ exchange_rates = pre.exchange_rates
        /\ base_currency = pre.base_currency
        /\ last_updated = pre.last_updated

====
